---- MODULE Spec2Model ----
(***************************************************************************)
(* A model of the WASI host shim of try-watim (src/src/compiler.ts):       *)
(* prepareWasi (argument vector, file loading, descriptor table, the       *)
(* system calls) and runWasi (the execution driver).                       *)
(*                                                                         *)
(* Conventions.                                                            *)
(*  - A string is a sequence of code points, a buffer a sequence of bytes. *)
(*    TextEncode / TextDecode are UTF-8 for code points below 0x800, which *)
(*    covers every code point and byte the model uses.                     *)
(*  - Offsets are 0-based as in the source; sequences are 1-based, so the  *)
(*    byte at offset p of a buffer b is b[p + 1].                          *)
(*  - `mem` is a window of MemSize bytes of the guest's linear memory that *)
(*    holds the data buffers.  The uint32 cells the calls read and write   *)
(*    (iovec arrays, out pointers, the argv pointer array) and the path    *)
(*    bytes of path_open lie in guest memory outside that window: the      *)
(*    iovecs and the path are parameters of the actions and the cells      *)
(*    written are recorded in lastCall.                                    *)
(***************************************************************************)
EXTENDS Integers, Sequences, FiniteSets, TLC

\* ------------------------------------------------------------- bounds
MaxCalls == 3      \* system calls the guest issues in one run
MemSize == 6       \* bytes of the guest memory window

\* ---------------------------------------------------------- constants
STDIN == 0
STDOUT == 1
STDERR == 2
NOT_SUPPORTED == 58
IS_A_DIRECTORY == 31
NO_SUCH_FILE_OR_DIRECTORY == 44
PRESTAT_FAILURE == 8
SLASH == 47
REPLACEMENT == 65533

\* No value: a cell that was not written, a call that did not return.
None == 0 - 1

\* ------------------------------------------------------------ strings
Min(a, b) == IF a < b THEN a ELSE b

DotName == <<46>>
MainName == <<109>>
LibName == <<108>>
AName == <<97>>
XName == <<120>>
ConstructorName == <<99, 111, 110, 115, 116, 114, 117, 99, 116, 111, 114>>

\* The child's name appended without the separator.
PathOfNoSlash(a, b) == a \o b

\* `${path}/${childPath}`
PathOf(a, b) == a \o <<SLASH>> \o b

\* new TextEncoder().encode(s): UTF-8, one code point after the other.
RECURSIVE TextEncode(_)
TextEncode(s) ==
    IF s = <<>> THEN <<>>
    ELSE LET c == Head(s)
         IN (IF c < 128 THEN <<c>>
             ELSE <<192 + (c \div 64), 128 + (c % 64)>>) \o TextEncode(Tail(s))

\* new TextDecoder().decode(b): UTF-8; a byte that starts no well-formed
\* sequence becomes U+FFFD and decoding resumes at the next byte.
RECURSIVE TextDecode(_)
TextDecode(b) ==
    IF b = <<>> THEN <<>>
    ELSE LET h == Head(b)
         IN IF h < 128 THEN <<h>> \o TextDecode(Tail(b))
            ELSE IF /\ h >= 194 /\ h <= 223 /\ Len(b) >= 2
                    /\ b[2] >= 128 /\ b[2] <= 191
                 THEN <<(h - 192) * 64 + (b[2] - 128)>>
                      \o TextDecode(SubSeq(b, 3, Len(b)))
                 ELSE <<REPLACEMENT>> \o TextDecode(Tail(b))

\* path.split('/') of a non-empty or empty string: "" gives [""].
RECURSIVE Split(_)
Split(s) ==
    IF \A k \in 1..Len(s) : s[k] # SLASH THEN <<s>>
    ELSE LET k == CHOOSE j \in 1..Len(s) :
                    /\ s[j] = SLASH
                    /\ \A m \in 1..(j - 1) : s[m] # SLASH
         IN <<SubSeq(s, 1, k - 1)>> \o Split(SubSeq(s, k + 1, Len(s)))

\* segments.join('/')
RECURSIVE Join(_)
Join(segs) ==
    IF Len(segs) = 0 THEN <<>>
    ELSE IF Len(segs) = 1 THEN segs[1]
    ELSE segs[1] \o <<SLASH>> \o Join(Tail(segs))

\* ------------------------------------------------------ the file tree
FileEntry(f) == [type |-> "file", file |-> f, children |-> <<>>]

Directory(c) == [type |-> "directory", file |-> <<>>, children |-> c]

\* The caller's tree, FileSystemNode<FileLoader>: each file holds its loader.
\* { "m": <loader>, "l": { "a": <loader> } }
CallerTree ==
    Directory(MainName :> FileEntry("loaderM")
              @@ LibName :> Directory(AName :> FileEntry("loaderA")))

\* What a loader may resolve with.
LoaderTexts == {<<97, 98>>, <<233, 97>>}

\* The wasmPath and the argStrings the caller passes.
WasmPath == <<119>>
ArgStrings == <<XName, <<121, 233>>>>

\* The bytes the guest holds in its memory window when it starts.
GuestData == <<104, 195, 169>>

\* loadFileSystem's calls of the loaders: the paths it passes, per node.
RECURSIVE LoaderPaths(_, _)
LoaderPaths(path, fileSystem) ==
    IF fileSystem.type = "file" THEN {path}
    ELSE UNION {LoaderPaths(PathOf(path, childPath), fileSystem.children[childPath]) :
                    childPath \in DOMAIN fileSystem.children}

\* loadFileSystem's result, FileSystemNode<File>.  Each file holds the File
\* object createFile made for it; the object is named by the path it was
\* loaded under, and its data and cursor are files[that path].
RECURSIVE LoadFileSystem(_, _)
LoadFileSystem(path, fileSystem) ==
    IF fileSystem.type = "file" THEN FileEntry(path)
    ELSE Directory([childPath \in DOMAIN fileSystem.children |->
                       LoadFileSystem(PathOf(path, childPath),
                                      fileSystem.children[childPath])])

\* const fileSystem = { type: "directory", children: { ".": ... } }
FileSystemRoot == Directory(DotName :> LoadFileSystem(DotName, CallerTree))

Leaves == LoaderPaths(DotName, CallerTree)

\* --------------------------------------------------------- File objects
\* A File object reference: the four installed before the guest runs, a File
\* made by createFile (obj = "file", id = its load path), or undefined.
StdinFile == [obj |-> "stdin", id |-> <<>>]
StdoutFile == [obj |-> "stdout", id |-> <<>>]
StderrFile == [obj |-> "stderr", id |-> <<>>]
PreopenFile == [obj |-> "preopen", id |-> <<>>]
CreatedFile(id) == [obj |-> "file", id |-> id]
Undefined == [obj |-> "undefined", id |-> <<>>]

\* createFile(data): a File whose closure holds data and cursor = 0.
CreateFile(data) == [made |-> TRUE, data |-> data, cursor |-> 0]

NoFile == [made |-> FALSE, data |-> <<>>, cursor |-> 0]

\* file.prestatName
PrestatName(file) == IF file.obj = "preopen" THEN DotName ELSE <<>>

\* createFile giving its Files a prestatName too.
HasPrestatNameOrData(file) == file.obj \in {"preopen", "file"}

HasPrestatName(file) == file.obj = "preopen"

\* ---------------------------------------------------------------- state
VARIABLES
    phase,        \* where runWasi's executor is
    result,       \* the promise runWasi returned
    args,         \* args: DataView[]
    loaders,      \* each loader call's promise
    loaderCalls,  \* how often loadFileSystem called the loader of each path
    files,        \* the File objects createFile made: data and cursor
    nextI,        \* the i of nextFd
    openFds,      \* openFds
    exports,      \* instance.exports: which of memory and _start exist
    mem,          \* the guest memory window
    sink,         \* the writeOutput invocations, in order
    lastCall,     \* the last system call and what it returned
    ncalls,       \* system calls issued so far
    opened,       \* history: descriptors successful path_opens returned
    written,      \* history: the iovecs the guest wrote to descriptors 1, 2
    delivered,    \* history: bytes fd_read delivered, per descriptor
    copyIn,       \* copy on its own: the arguments of one call
    copyOut,      \* copy on its own: what the call returned and left in dstBuf
    cache,        \* cached: the Map of the closure fetchFile holds
    requests,     \* cached: the calls of fetchFile, in the order they were made
    completed,    \* history: the values the fetches of each path resolved with
    counters,     \* two runs: the i of every nextFd closure
    tables,       \* two runs: every openFds object
    cursors,      \* two runs: the cursor of every File createFile made
    two,          \* two runs: each run's phase, memory, sink and call results
    solo          \* history: each run's calls replayed on a run of its own

runVars == <<phase, result, args, loaders, loaderCalls, files, nextI, openFds,
             exports, mem, sink, lastCall, ncalls, opened, written, delivered>>

copyVars == <<copyIn, copyOut>>

cacheVars == <<cache, requests, completed>>

twoVars == <<counters, tables, cursors, two, solo>>

vars == <<runVars, copyVars, cacheVars, twoVars>>

hist == <<opened, written, delivered>>

\* The promise runWasi returns: pending, or resolved with an exit code or
\* with undefined.  Nothing in runWasi rejects it.
Pending == [state |-> "pending", kind |-> "none", code |-> None]
ExitCode(c) == [state |-> "resolved", kind |-> "code", code |-> c]
UndefinedResult == [state |-> "resolved", kind |-> "undefined", code |-> None]

\* resolve(v): only the first call settles the promise.
Resolve(r, v) == IF r.state = "pending" THEN v ELSE r

NoCall == [op |-> "none", fd |-> None, arg |-> <<>>, code |-> None,
           out |-> None, out2 |-> <<>>]

\* copy has not been called on its own.
NoCopy == [called |-> FALSE, srcBuf |-> <<>>, dstBuf |-> <<>>, src |-> 0,
           dst |-> 0, len |-> 0, n |-> None]

\* The statements of prepareWasi before loadFileSystem is called: the
\* imports closure exists, nothing has run.
InitRun ==
    /\ phase = "created"
    /\ result = Pending
    /\ args = [k \in 1..(Len(ArgStrings) + 1) |->
                  TextEncode((<<WasmPath>> \o ArgStrings)[k])]
    /\ loaders = [p \in Leaves |-> "idle"]
    /\ loaderCalls = [p \in Leaves |-> 0]
    /\ files = [p \in Leaves |-> NoFile]
    /\ nextI = 0
    /\ openFds = <<>>
    /\ exports = [memory |-> FALSE, start |-> FALSE]
    /\ mem = [k \in 1..MemSize |-> IF k <= Len(GuestData) THEN GuestData[k] ELSE 0]
    /\ sink = <<>>
    /\ lastCall = NoCall
    /\ ncalls = 0
    /\ opened = <<>>
    /\ written = <<>>
    /\ delivered = <<>>

\* const cache = new Map<string, T>(), and no call of fetchFile yet.
InitCache ==
    /\ cache = [i \in Leaves |-> [has |-> FALSE, v |-> <<>>]]
    /\ requests = <<>>
    /\ completed = [i \in Leaves |-> {}]

\* The two runs the caller starts.
Runs == {1, 2}

\* The text the loaders of each run resolve with: the caller's tree differs
\* from one recompile to the next.
TwoText(r) == IF r = 1 THEN <<97, 98>> ELSE <<233, 97>>

\* One counter outside prepareWasi, for every run.
CounterShared(r) == 1

\* The objects a call of prepareWasi(...)(getMemory) creates for run r.
\* Its nextFd closure, with `let i = 0`:
CounterOf(r) == r

\* Its openFds object:
TableOf(r) == r

\* The cursor of the createFile call for path p:
CursorOf(r, p) == <<r, p>>

\* The memory window of a guest that has not run.
FreshMemory == [k \in 1..MemSize |-> IF k <= Len(GuestData) THEN GuestData[k] ELSE 0]

\* Both runs created, none set up; every counter and cursor is created
\* with 0.
InitTwo ==
    /\ counters = [c \in Runs |-> 0]
    /\ tables = [t \in Runs |-> <<>>]
    /\ cursors = [c \in Runs \X Leaves |-> 0]
    /\ two = [r \in Runs |-> [phase |-> "created", mem |-> FreshMemory,
                               sink |-> <<>>, log |-> <<>>]]
    /\ solo = [r \in Runs |->
                 [phase |-> "created", nextI |-> 0, openFds |-> <<>>,
                  files |-> [p \in Leaves |-> CreateFile(TextEncode(TwoText(r)))],
                  mem |-> FreshMemory, sink |-> <<>>, log |-> <<>>]]

Init ==
    /\ InitRun
    /\ copyIn = NoCopy
    /\ copyOut = NoCopy
    /\ InitCache
    /\ InitTwo


\* ---------------------------------------------------------------- setup
\* nextFd = () => i++ : the value returned, and i afterwards.
NextFdValue(i) == i

\* A counter that is not advanced.
NextFdCounterStuck(i) == i

NextFdCounter(i) == i + 1

\* loadFileSystem(".", fs) runs up to its awaits: every loader is called,
\* siblings one after the other, before any of them is awaited.
StartLoad ==
    /\ phase = "created"
    /\ phase' = "loading"
    /\ loaders' = [p \in Leaves |-> "pending"]
    /\ loaderCalls' = [p \in Leaves |-> loaderCalls[p] + 1]
    /\ UNCHANGED <<result, args, files, nextI, openFds, exports, mem, sink,
                   lastCall, ncalls, hist>>

\* A loader's promise resolves with text: loadFileSystem encodes it and
\* calls createFile.  The loaders still pending after a rejection go on.
LoaderResolve(p, text) ==
    /\ phase \in {"loading", "failed"}
    /\ loaders[p] = "pending"
    /\ loaders' = [loaders EXCEPT ![p] = "resolved"]
    /\ files' = [files EXCEPT ![p] = CreateFile(TextEncode(text))]
    /\ UNCHANGED <<phase, result, args, loaderCalls, nextI, openFds, exports,
                   mem, sink, lastCall, ncalls, hist>>

\* A loader's promise rejects: Promise.all rejects, the await of line 92
\* throws, the promise of wasi(...) rejects, the await of line 270 throws
\* inside the async executor of runWasi, whose own promise nobody holds:
\* resolve is never called.
LoaderReject(p) ==
    /\ phase \in {"loading", "failed"}
    /\ loaders[p] = "pending"
    /\ loaders' = [loaders EXCEPT ![p] = "rejected"]
    /\ phase' = "failed"
    /\ UNCHANGED <<result, args, loaderCalls, files, nextI, openFds, exports,
                   mem, sink, lastCall, ncalls, hist>>

\* The object literal of openFds: four calls of nextFd, in order.
InstallFds(i) ==
    LET fd0 == NextFdValue(i)
        i1 == NextFdCounter(i)
        fd1 == NextFdValue(i1)
        i2 == NextFdCounter(i1)
        fd2 == NextFdValue(i2)
        i3 == NextFdCounter(i2)
        fd3 == NextFdValue(i3)
        i4 == NextFdCounter(i3)
    IN [i |-> i4,
        fds |-> (fd3 :> PreopenFile) @@ (fd2 :> StderrFile)
                @@ (fd1 :> StdoutFile) @@ (fd0 :> StdinFile)]

\* Going on as soon as one loader has resolved.
SomeLoaded(ls) == \E p \in Leaves : ls[p] = "resolved"

\* await Promise.all(children), at every directory: every loader resolved.
AllLoaded(ls) == \A p \in Leaves : ls[p] = "resolved"

\* Every loader has resolved: prepareWasi builds fileSystem, nextFd and
\* openFds and returns the imports.
FinishSetup ==
    /\ phase = "loading"
    /\ AllLoaded(loaders)
    /\ phase' = "prepared"
    /\ nextI' = InstallFds(nextI).i
    /\ openFds' = InstallFds(nextI).fds
    /\ UNCHANGED <<result, args, loaders, loaderCalls, files, exports, mem,
                   sink, lastCall, ncalls, hist>>

\* await loadWasm(imports): the instance exists, with or without a memory
\* and a _start export.
Instantiate(hasMemory, hasStart) ==
    /\ phase = "prepared"
    /\ phase' = "instantiated"
    /\ exports' = [memory |-> hasMemory, start |-> hasStart]
    /\ UNCHANGED <<result, args, loaders, loaderCalls, files, nextI, openFds,
                   mem, sink, lastCall, ncalls, hist>>

\* The check of _start left out.
ExportsMissingMemoryOnly(e) == ~e.memory

\* !(memExport instanceof WebAssembly.Memory), !(startExport instanceof Function)
ExportsMissing(e) == ~e.memory \/ ~e.start

\* The two export checks of runWasi and the call of startExport.
Start ==
    /\ phase = "instantiated"
    /\ IF ExportsMissing(exports)
       THEN /\ result' = Resolve(result, UndefinedResult)
            /\ phase' = "noexports"
       ELSE /\ result' = result
            /\ phase' = "running"
    /\ UNCHANGED <<args, loaders, loaderCalls, files, nextI, openFds, exports,
                   mem, sink, lastCall, ncalls, hist>>

\* startExport() returns: resolve(0).
GuestReturn ==
    /\ phase = "running"
    /\ result' = Resolve(result, ExitCode(0))
    /\ phase' = "done"
    /\ UNCHANGED <<args, loaders, loaderCalls, files, nextI, openFds, exports,
                   mem, sink, lastCall, ncalls, hist>>

\* --------------------------------------------------------- path_open
\* Names every object literal inherits from Object.prototype; the model
\* holds one of them.  children[name] finds them although they are no
\* child: children is a plain object (lines 85, 91).
ObjectPrototypeKeys == {ConstructorName}

\* children[name] when name is no own key: an inherited value, which has
\* neither a type nor a file property, or undefined.
Inherited == [type |-> "inherited", file |-> <<>>, children |-> <<>>]

Missing == [type |-> "missing", file |-> <<>>, children |-> <<>>]

\* fileSystem.children[splits[0]]
ChildOf(children, name) ==
    IF name \in DOMAIN children THEN children[name]
    ELSE IF name \in ObjectPrototypeKeys THEN Inherited
    ELSE Missing

\* fileSystem.file, as openFile stores it in openFds.
FileOf(fileSystem) ==
    IF fileSystem.type = "file" THEN CreatedFile(fileSystem.file) ELSE Undefined

OpenFailed(code, i) ==
    [fd |-> 0, code |-> code, bound |-> FALSE, file |-> Undefined, i |-> i]

\* openFile(path, fileSystem), with i the counter of nextFd: the pair it
\* returns, whether it stored openFds[fd] = file, and i afterwards.
RECURSIVE OpenFile(_, _, _)
OpenFile(path, fileSystem, i) ==
    LET splits == IF Len(path) = 0 THEN <<>> ELSE Split(path)
    IN IF Len(splits) = 0
       THEN IF fileSystem.type = "directory" THEN OpenFailed(IS_A_DIRECTORY, i)
            ELSE [fd |-> NextFdValue(i), code |-> 0, bound |-> TRUE,
                  file |-> FileOf(fileSystem), i |-> NextFdCounter(i)]
       ELSE IF fileSystem.type # "directory"
            THEN OpenFailed(NO_SUCH_FILE_OR_DIRECTORY, i)
            ELSE LET entry == ChildOf(fileSystem.children, splits[1])
                 IN IF entry.type = "missing"
                    THEN OpenFailed(NO_SUCH_FILE_OR_DIRECTORY, i)
                    ELSE OpenFile(Join(Tail(splits)), entry, i)

\* openFds[fd] = file
Bind(fds, fd, file) ==
    [x \in (DOMAIN fds) \cup {fd} |-> IF x = fd THEN file ELSE fds[x]]

\* The guest is executing: startExport() has been called and has not ended.
Running == phase = "running"

\* path_open(..., pathPtr, pathLen, ..., resPtr), pathBytes being the bytes
\* at pathPtr .. pathPtr + pathLen.  The fd is stored at resPtr in every case.
PathOpen(pathBytes) ==
    /\ Running
    /\ LET r == OpenFile(TextDecode(pathBytes), FileSystemRoot, nextI)
       IN /\ nextI' = r.i
          /\ openFds' = IF r.bound THEN Bind(openFds, r.fd, r.file) ELSE openFds
          /\ lastCall' = [op |-> "path_open", fd |-> None, arg |-> pathBytes,
                          code |-> r.code, out |-> r.fd, out2 |-> <<>>]
          /\ opened' = IF r.code = 0 THEN Append(opened, r.fd) ELSE opened
          /\ delivered' = IF r.code = 0
                          THEN [x \in (DOMAIN delivered) \cup {r.fd} |->
                                   IF x \in DOMAIN delivered THEN delivered[x]
                                   ELSE <<>>]
                          ELSE delivered
    /\ ncalls' = ncalls + 1
    /\ UNCHANGED <<phase, result, args, loaders, loaderCalls, files, exports,
                   mem, sink, written>>

\* ----------------------------------------------------------------- copy
\* copy without the check of the destination's length.
RECURSIVE CopyLoopNoDstCheck(_, _, _, _, _, _)
CopyLoopNoDstCheck(srcBuf, dstBuf, src, dst, len, i) ==
    IF ~(i < len) THEN [n |-> len, dstBuf |-> dstBuf]
    ELSE IF src + i >= Len(srcBuf) THEN [n |-> i, dstBuf |-> dstBuf]
    ELSE CopyLoopNoDstCheck(srcBuf,
                            IF dst + i < Len(dstBuf)
                            THEN [dstBuf EXCEPT ![dst + i + 1] = srcBuf[src + i + 1]]
                            ELSE dstBuf,
                            src, dst, len, i + 1)

\* copy(srcBuf, dstBuf, src, dst, len) from its i-th iteration on: the count
\* it returns and dstBuf afterwards.
RECURSIVE CopyLoop(_, _, _, _, _, _)
CopyLoop(srcBuf, dstBuf, src, dst, len, i) ==
    IF ~(i < len) THEN [n |-> len, dstBuf |-> dstBuf]
    ELSE IF src + i >= Len(srcBuf) THEN [n |-> i, dstBuf |-> dstBuf]
    ELSE IF dst + i >= Len(dstBuf) THEN [n |-> i, dstBuf |-> dstBuf]
    ELSE CopyLoop(srcBuf, [dstBuf EXCEPT ![dst + i + 1] = srcBuf[src + i + 1]],
                  src, dst, len, i + 1)

Copy(srcBuf, dstBuf, src, dst, len) == CopyLoop(srcBuf, dstBuf, src, dst, len, 0)

\* memory.buffer.slice(begin, end): clamped to the buffer.
Slice(buf, begin, end) == SubSeq(buf, Min(begin, Len(buf)) + 1, Min(end, Len(buf)))

Iov(ptr, len) == [ptr |-> ptr, len |-> len]

\* fd_read and fd_write returning to the guest instead of throwing.
ThrowNotOpenMissing(ph) == ph

\* The throw of fd_read and fd_write on a descriptor that is not open: it
\* unwinds the guest and startExport, and the executor of runWasi ends.
ThrowNotOpen(ph) == "aborted"

\* openFds[fd]?.read === undefined, openFds[fd]?.write === undefined
NotOpen(fds, fd) == fd \notin DOMAIN fds \/ fds[fd] = Undefined

\* -------------------------------------------------------------- fd_read
\* file.read(ptr, len): the pair it returns, and the cursors and the memory
\* afterwards.
FileRead(file, ptr, len, fls, m) ==
    IF file.obj = "file"
    THEN LET c == Copy(fls[file.id].data, m, fls[file.id].cursor, ptr, len)
         IN [n |-> c.n, code |-> 0,
             files |-> [fls EXCEPT ![file.id].cursor = @ + c.n],
             mem |-> c.dstBuf]
    ELSE [n |-> 0, code |-> NOT_SUPPORTED, files |-> fls, mem |-> m]

\* The loop of fd_read from its i-th iovec on.  st.read is the local `read`;
\* st.got collects, from the memory, the bytes the call has put there.
\* stored tells whether the loop ended by falling out or by its break, so
\* that line 168 stores `read` at readPtr.
RECURSIVE FdReadLoop(_, _, _, _)
FdReadLoop(file, iovs, i, st) ==
    IF i > Len(iovs) THEN [st EXCEPT !.stored = TRUE]
    ELSE LET ptr == iovs[i].ptr
             len == iovs[i].len
             r == FileRead(file, ptr, len, st.files, st.mem)
             nst == [code |-> 0, stored |-> FALSE, read |-> st.read + r.n,
                     files |-> r.files, mem |-> r.mem,
                     got |-> st.got \o SubSeq(r.mem, ptr + 1, ptr + r.n)]
         IN IF r.code # 0
            THEN [st EXCEPT !.code = r.code, !.files = r.files, !.mem = r.mem]
            ELSE IF r.n < len THEN [nst EXCEPT !.stored = TRUE]
            ELSE FdReadLoop(file, iovs, i + 1, nst)

FdRead(fd, iovs) ==
    /\ Running
    /\ ncalls' = ncalls + 1
    /\ IF NotOpen(openFds, fd)
       THEN /\ phase' = ThrowNotOpen(phase)
            /\ lastCall' = [op |-> "fd_read", fd |-> fd, arg |-> iovs,
                            code |-> None, out |-> None, out2 |-> <<>>]
            /\ UNCHANGED <<files, mem, delivered>>
       ELSE LET r == FdReadLoop(openFds[fd], iovs, 1,
                                [code |-> 0, stored |-> FALSE, read |-> 0,
                                 files |-> files, mem |-> mem, got |-> <<>>])
            IN /\ files' = r.files
               /\ mem' = r.mem
               /\ lastCall' = [op |-> "fd_read", fd |-> fd, arg |-> iovs,
                               code |-> r.code,
                               out |-> IF r.stored THEN r.read ELSE None,
                               out2 |-> r.got]
               /\ delivered' = IF fd \in DOMAIN delivered
                               THEN [delivered EXCEPT ![fd] = @ \o r.got]
                               ELSE delivered
               /\ phase' = phase
    /\ UNCHANGED <<result, args, loaders, loaderCalls, nextI, openFds, exports,
                   sink, opened, written>>

\* ------------------------------------------------------------- fd_write
\* The descriptor each sink-backed File passes to writeOutput.
StdoutTag == STDOUT

\* The stderr File passing the descriptor of stdout.
StderrTagAsStdout == STDOUT

StderrTag == STDERR

\* file.write(data): the pair it returns and the sink afterwards.
FileWrite(file, data, snk) ==
    IF file.obj = "stdout"
    THEN [n |-> Len(data), code |-> 0,
          sink |-> Append(snk, [fd |-> StdoutTag, data |-> TextDecode(data)])]
    ELSE IF file.obj = "stderr"
    THEN [n |-> Len(data), code |-> 0,
          sink |-> Append(snk, [fd |-> StderrTag, data |-> TextDecode(data)])]
    ELSE [n |-> 0, code |-> NOT_SUPPORTED, sink |-> snk]

\* The loop of fd_write from its i-th iovec on; st.written is the local.
RECURSIVE FdWriteLoop(_, _, _, _, _)
FdWriteLoop(file, iovs, m, i, st) ==
    IF i > Len(iovs) THEN [st EXCEPT !.stored = TRUE]
    ELSE LET data == Slice(m, iovs[i].ptr, iovs[i].ptr + iovs[i].len)
             r == FileWrite(file, data, st.sink)
         IN IF r.code # 0 THEN [st EXCEPT !.code = r.code, !.sink = r.sink]
            ELSE FdWriteLoop(file, iovs, m, i + 1,
                             [code |-> 0, stored |-> FALSE,
                              written |-> st.written + r.n, sink |-> r.sink])

FdWrite(fd, iovs) ==
    /\ Running
    /\ ncalls' = ncalls + 1
    /\ IF NotOpen(openFds, fd)
       THEN /\ phase' = ThrowNotOpen(phase)
            /\ lastCall' = [op |-> "fd_write", fd |-> fd, arg |-> iovs,
                            code |-> None, out |-> None, out2 |-> <<>>]
            /\ UNCHANGED <<sink>>
       ELSE LET r == FdWriteLoop(openFds[fd], iovs, mem, 1,
                                 [code |-> 0, stored |-> FALSE, written |-> 0,
                                  sink |-> sink])
            IN /\ sink' = r.sink
               /\ lastCall' = [op |-> "fd_write", fd |-> fd, arg |-> iovs,
                               code |-> r.code,
                               out |-> IF r.stored THEN r.written ELSE None,
                               out2 |-> <<>>]
               /\ phase' = phase
    /\ written' = IF fd \in {STDOUT, STDERR}
                  THEN written \o [k \in 1..Len(iovs) |->
                          [fd |-> fd,
                           bytes |-> Slice(mem, iovs[k].ptr, iovs[k].ptr + iovs[k].len)]]
                  ELSE written
    /\ UNCHANGED <<result, args, loaders, loaderCalls, files, nextI, openFds,
                   exports, mem, opened, delivered>>

\* ------------------------------------------------- args_sizes_get, args_get
RECURSIVE SumSizes(_)
SumSizes(as) == IF as = <<>> THEN 0 ELSE (Len(Head(as)) + 1) + SumSizes(Tail(as))

ArgsSizesGet ==
    /\ Running
    /\ ncalls' = ncalls + 1
    /\ lastCall' = [op |-> "args_sizes_get", fd |-> None, arg |-> <<>>,
                    code |-> 0, out |-> Len(args), out2 |-> <<SumSizes(args)>>]
    /\ UNCHANGED <<phase, result, args, loaders, loaderCalls, files, nextI,
                   openFds, exports, mem, sink, hist>>

\* ptr += args[i].byteLength
ArgAdvance(ptr, arg) == ptr + Len(arg)

\* The loop of args_get from its i-th argument on: the memory and the
\* pointer array afterwards; ok is FALSE when setUint8 was given an offset
\* outside the memory and threw.
RECURSIVE ArgsGetLoop(_, _, _, _, _)
ArgsGetLoop(as, m, ptr, i, ptrs) ==
    IF i > Len(as) THEN [ok |-> TRUE, mem |-> m, ptrs |-> ptrs]
    ELSE LET c == Copy(as[i], m, 0, ptr, Len(as[i]))
             zero == ptr + Len(as[i])
         IN IF zero >= Len(m)
            THEN [ok |-> FALSE, mem |-> c.dstBuf, ptrs |-> Append(ptrs, ptr)]
            ELSE ArgsGetLoop(as, [c.dstBuf EXCEPT ![zero + 1] = 0],
                             ArgAdvance(ptr, as[i]), i + 1, Append(ptrs, ptr))

ArgsGet(argv_buf) ==
    /\ Running
    /\ ncalls' = ncalls + 1
    /\ LET r == ArgsGetLoop(args, mem, argv_buf, 1, <<>>)
       IN /\ mem' = r.mem
          /\ phase' = IF r.ok THEN phase ELSE "aborted"
          /\ lastCall' = [op |-> "args_get", fd |-> None, arg |-> <<argv_buf>>,
                          code |-> IF r.ok THEN 0 ELSE None, out |-> None,
                          out2 |-> r.ptrs]
    /\ UNCHANGED <<result, args, loaders, loaderCalls, files, nextI, openFds,
                   exports, sink, hist>>

\* ------------------------------------- fd_prestat_get, fd_prestat_dir_name
\* Neither an absent file nor one without a prestatName.
IsPreopen(fds, fd) ==
    /\ fd \in DOMAIN fds
    /\ fds[fd] # Undefined
    /\ HasPrestatName(fds[fd])

\* fd_prestat_get(fd, prestat): the kind and the byte length of the name
\* are stored at prestat and prestat + 4.
FdPrestatGet(fd) ==
    /\ Running
    /\ ncalls' = ncalls + 1
    /\ lastCall' =
          IF IsPreopen(openFds, fd)
          THEN [op |-> "fd_prestat_get", fd |-> fd, arg |-> <<>>, code |-> 0,
                out |-> 0,
                out2 |-> <<Len(TextEncode(PrestatName(openFds[fd])))>>]
          ELSE [op |-> "fd_prestat_get", fd |-> fd, arg |-> <<>>,
                code |-> PRESTAT_FAILURE, out |-> None, out2 |-> <<>>]
    /\ UNCHANGED <<phase, result, args, loaders, loaderCalls, files, nextI,
                   openFds, exports, mem, sink, hist>>

\* fd_prestat_dir_name(fd, ptr, len)
FdPrestatDirName(fd, ptr, len) ==
    /\ Running
    /\ ncalls' = ncalls + 1
    /\ IF IsPreopen(openFds, fd)
       THEN /\ mem' = Copy(TextEncode(PrestatName(openFds[fd])), mem, 0, ptr, len).dstBuf
            /\ lastCall' = [op |-> "fd_prestat_dir_name", fd |-> fd,
                            arg |-> <<ptr, len>>, code |-> 0, out |-> None,
                            out2 |-> <<>>]
       ELSE /\ mem' = mem
            /\ lastCall' = [op |-> "fd_prestat_dir_name", fd |-> fd,
                            arg |-> <<ptr, len>>, code |-> PRESTAT_FAILURE,
                            out |-> None, out2 |-> <<>>]
    /\ UNCHANGED <<phase, result, args, loaders, loaderCalls, files, nextI,
                   openFds, exports, sink, hist>>

\* ------------------------------------------------------------ proc_exit
\* proc_exit returning to the guest instead of throwing.
ThrowExitMissing(ph) == ph

\* throw new Error(`EXIT ${code}`): it unwinds the guest and startExport, and
\* the executor of runWasi ends before its resolve(0).
ThrowExit(ph) == "exited"

\* proc_exit(code): onExit is the resolve of runWasi's promise.
ProcExit(code) ==
    /\ Running
    /\ ncalls' = ncalls + 1
    /\ result' = Resolve(result, ExitCode(code))
    /\ phase' = ThrowExit(phase)
    /\ lastCall' = [op |-> "proc_exit", fd |-> None, arg |-> <<code>>,
                    code |-> None, out |-> None, out2 |-> <<>>]
    /\ UNCHANGED <<args, loaders, loaderCalls, files, nextI, openFds, exports,
                   mem, sink, hist>>

\* ------------------------------------------------------ what the guest does
PathStrings ==
    {<<>>, DotName, PathOf(DotName, MainName),
     PathOf(DotName, MainName) \o <<SLASH>>,
     PathOf(PathOf(DotName, MainName), XName),
     PathOf(DotName, LibName), PathOf(DotName, LibName) \o <<SLASH>>,
     PathOf(PathOf(DotName, LibName), AName),
     PathOf(DotName, XName), MainName,
     PathOf(DotName, ConstructorName),
     PathOf(PathOf(DotName, LibName), ConstructorName),
     PathOf(PathOf(DotName, ConstructorName), XName)}

\* The iovec lists of the guest's reads: none, one byte, two iovecs, and one
\* that runs past the end of the memory.
ReadIovLists ==
    {<<>>, <<Iov(3, 1)>>, <<Iov(3, 1), Iov(0, 2)>>, <<Iov(MemSize - 1, 2)>>}

\* The iovec lists of the guest's writes: none, one byte, and two iovecs
\* that cut a two-byte character in two.
WriteIovLists == {<<>>, <<Iov(0, 1)>>, <<Iov(1, 1), Iov(2, 1)>>}

ExitCodes == {0, 42}

\* The buffers the guest passes to fd_prestat_dir_name: an empty one and one
\* longer than the name.
PrestatBufs == {Iov(4, 0), Iov(4, 2)}

ArgvBufs == {0}

RunStep ==
    \/ StartLoad
    \/ \E p \in Leaves, text \in LoaderTexts : LoaderResolve(p, text)
    \/ \E p \in Leaves : LoaderReject(p)
    \/ FinishSetup
    \/ \E hasMemory \in BOOLEAN, hasStart \in BOOLEAN : Instantiate(hasMemory, hasStart)
    \/ Start
    \/ GuestReturn
    \/ ncalls < MaxCalls /\ \E path \in PathStrings : PathOpen(TextEncode(path))
    \/ ncalls < MaxCalls /\ \E fd \in 0..nextI, iovs \in ReadIovLists : FdRead(fd, iovs)
    \/ ncalls < MaxCalls /\ \E fd \in 0..nextI, iovs \in WriteIovLists : FdWrite(fd, iovs)
    \/ ncalls < MaxCalls /\ ArgsSizesGet
    \/ ncalls < MaxCalls /\ \E argv_buf \in ArgvBufs : ArgsGet(argv_buf)
    \/ ncalls < MaxCalls /\ \E fd \in 0..nextI : FdPrestatGet(fd)
    \/ ncalls < MaxCalls /\ \E fd \in 0..nextI, buf \in PrestatBufs :
                                FdPrestatDirName(fd, buf.ptr, buf.len)
    \/ ncalls < MaxCalls /\ \E code \in ExitCodes : ProcExit(code)

Next == RunStep /\ UNCHANGED <<copyVars, cacheVars, twoVars>>

Spec == Init /\ [][Next]_vars

\* ------------------------------------------------------- the cat guest
\* The longest buffer the cat guest passes to fd_read.
MaxCatBuf == 3

\* The guest of the end-to-end scenario: it opens the path of one file leaf,
\* reads into a buffer at offset 0 until a read delivers 0 bytes, writes what
\* each read delivered to descriptor 1, and returns.
CatOpen ==
    /\ lastCall.op = "none"
    /\ \E p \in Leaves : PathOpen(TextEncode(p))

CatRead ==
    /\ \/ lastCall.op = "path_open" /\ lastCall.code = 0
       \/ lastCall.op = "fd_write"
    /\ \E len \in 1..MaxCatBuf : FdRead(opened[1], <<Iov(0, len)>>)

CatWrite ==
    /\ lastCall.op = "fd_read"
    /\ lastCall.code = 0
    /\ lastCall.out > 0
    /\ FdWrite(STDOUT, <<Iov(0, lastCall.out)>>)

CatReturn ==
    /\ lastCall.op = "fd_read"
    /\ lastCall.code = 0
    /\ lastCall.out = 0
    /\ GuestReturn

CatStep ==
    \/ StartLoad
    \/ \E p \in Leaves, text \in LoaderTexts : LoaderResolve(p, text)
    \/ FinishSetup
    \/ Instantiate(TRUE, TRUE)
    \/ Start
    \/ CatOpen
    \/ CatRead
    \/ CatWrite
    \/ CatReturn

NextCat == CatStep /\ UNCHANGED <<copyVars, cacheVars, twoVars>>

SpecCat == Init /\ [][NextCat]_vars

\* ------------------------------------------------------ copy on its own
\* The longest buffer copy is given on its own.
MaxBuf == 2

\* The source buffers: every sequence of the bytes 1 and 2 up to MaxBuf.
RECURSIVE BytesUpTo(_)
BytesUpTo(n) ==
    IF n = 0 THEN {<<>>}
    ELSE BytesUpTo(n - 1)
         \cup {Append(b, x) : b \in {c \in BytesUpTo(n - 1) : Len(c) = n - 1},
                              x \in {1, 2}}

\* The arguments of one call of copy: a source buffer, a destination buffer
\* of zeros, and offsets and a length that reach past both.
InitCopy ==
    /\ InitRun
    /\ InitCache
    /\ InitTwo
    /\ copyOut = NoCopy
    /\ \E srcBuf \in BytesUpTo(MaxBuf), size \in 0..MaxBuf,
          src \in 0..(MaxBuf + 1), dst \in 0..(MaxBuf + 1), len \in 0..(MaxBuf + 1) :
          copyIn = [called |-> FALSE, srcBuf |-> srcBuf,
                    dstBuf |-> [k \in 1..size |-> 0],
                    src |-> src, dst |-> dst, len |-> len, n |-> None]

\* copy(srcBuf, dstBuf, src, dst, len) is called.
CopyCall ==
    /\ ~copyOut.called
    /\ LET c == Copy(copyIn.srcBuf, copyIn.dstBuf, copyIn.src, copyIn.dst, copyIn.len)
       IN copyOut' = [copyIn EXCEPT !.called = TRUE, !.dstBuf = c.dstBuf, !.n = c.n]
    /\ UNCHANGED <<runVars, cacheVars, twoVars, copyIn>>

NextCopy == CopyCall

SpecCopy == InitCopy /\ [][NextCopy]_vars

\* ------------------------------------------------------ the cached loader
\* The calls of fetchFile the model makes.
MaxRequests == 3

\* A value is never taken from the cache.
CacheMiss(v) == FALSE

\* v !== undefined, v being cache.get(i)
CacheHit(v) == v.has

\* fetchFile(i) up to its return or its await: a hit returns the cached value,
\* a miss calls f(i) and waits for it.  late records whether a fetch of i had
\* completed when the call was made.
Request(i) ==
    /\ Len(requests) < MaxRequests
    /\ LET v == cache[i]
       IN requests' = Append(requests,
             IF CacheHit(v)
             THEN [path |-> i, state |-> "returned", fetched |-> FALSE,
                   value |-> v.v, late |-> completed[i] # {}]
             ELSE [path |-> i, state |-> "fetching", fetched |-> TRUE,
                   value |-> <<>>, late |-> completed[i] # {}])
    /\ UNCHANGED <<runVars, copyVars, twoVars, cache, completed>>

\* The fetch of the k-th call resolves with nv: cache.set(i, nv); return nv.
FetchDone(k, nv) ==
    /\ k \in 1..Len(requests)
    /\ requests[k].state = "fetching"
    /\ cache' = [cache EXCEPT ![requests[k].path] = [has |-> TRUE, v |-> nv]]
    /\ requests' = [requests EXCEPT ![k].state = "returned", ![k].value = nv]
    /\ completed' = [completed EXCEPT ![requests[k].path] = @ \cup {nv}]
    /\ UNCHANGED <<runVars, copyVars, twoVars>>

NextCache ==
    \/ \E i \in Leaves : Request(i)
    \/ \E k \in 1..MaxRequests, nv \in LoaderTexts : FetchDone(k, nv)

SpecCache == Init /\ [][NextCache]_vars

\* ---------------------------------------------------------------- two runs
\* The system calls each of the two runs makes.
MaxCallsTwo == 2

\* What run r sees: the counter, the table and the cursors its closures
\* hold, and its own memory, sink and results.
ViewOf(r) ==
    [phase |-> two[r].phase,
     nextI |-> counters[CounterOf(r)],
     openFds |-> tables[TableOf(r)],
     files |-> [p \in Leaves |->
                  [CreateFile(TextEncode(TwoText(r))) EXCEPT
                      !.cursor = cursors[CursorOf(r, p)]]],
     mem |-> two[r].mem, sink |-> two[r].sink, log |-> two[r].log]

\* prepareWasi's object literal of openFds, on a run seen as v.
StepSetup(v) ==
    [v EXCEPT !.phase = "running",
              !.nextI = InstallFds(v.nextI).i,
              !.openFds = InstallFds(v.nextI).fds]

\* path_open on a run seen as v.
StepOpen(v, pathBytes) ==
    LET r == OpenFile(TextDecode(pathBytes), FileSystemRoot, v.nextI)
    IN [v EXCEPT !.nextI = r.i,
                 !.openFds = IF r.bound THEN Bind(v.openFds, r.fd, r.file) ELSE @,
                 !.log = Append(@, [op |-> "path_open", code |-> r.code,
                                    out |-> r.fd, got |-> <<>>])]

\* fd_read on a run seen as v.
StepRead(v, fd, iovs) ==
    IF NotOpen(v.openFds, fd)
    THEN [v EXCEPT !.phase = ThrowNotOpen(@),
                   !.log = Append(@, [op |-> "fd_read", code |-> None,
                                      out |-> None, got |-> <<>>])]
    ELSE LET r == FdReadLoop(v.openFds[fd], iovs, 1,
                             [code |-> 0, stored |-> FALSE, read |-> 0,
                              files |-> v.files, mem |-> v.mem, got |-> <<>>])
         IN [v EXCEPT !.files = r.files, !.mem = r.mem,
                      !.log = Append(@, [op |-> "fd_read", code |-> r.code,
                                         out |-> IF r.stored THEN r.read ELSE None,
                                         got |-> r.got])]

\* fd_write on a run seen as v.
StepWrite(v, fd, iovs) ==
    IF NotOpen(v.openFds, fd)
    THEN [v EXCEPT !.phase = ThrowNotOpen(@),
                   !.log = Append(@, [op |-> "fd_write", code |-> None,
                                      out |-> None, got |-> <<>>])]
    ELSE LET r == FdWriteLoop(v.openFds[fd], iovs, v.mem, 1,
                              [code |-> 0, stored |-> FALSE, written |-> 0,
                               sink |-> v.sink])
         IN [v EXCEPT !.sink = r.sink,
                      !.log = Append(@, [op |-> "fd_write", code |-> r.code,
                                         out |-> IF r.stored THEN r.written ELSE None,
                                         got |-> <<>>])]

\* Run r goes from ViewOf(r) to w: every object run r holds is written, the
\* others stay; the same step is replayed on the run alone.
StoreView(r, w, alone) ==
    /\ counters' = [counters EXCEPT ![CounterOf(r)] = w.nextI]
    /\ tables' = [tables EXCEPT ![TableOf(r)] = w.openFds]
    /\ cursors' = [c \in DOMAIN cursors |->
                     IF \E p \in Leaves : c = CursorOf(r, p)
                     THEN w.files[CHOOSE p \in Leaves : c = CursorOf(r, p)].cursor
                     ELSE cursors[c]]
    /\ two' = [two EXCEPT ![r] = [phase |-> w.phase, mem |-> w.mem,
                                  sink |-> w.sink, log |-> w.log]]
    /\ solo' = [solo EXCEPT ![r] = alone]
    /\ UNCHANGED <<runVars, copyVars, cacheVars>>

TwoSetup(r) ==
    /\ two[r].phase = "created"
    /\ StoreView(r, StepSetup(ViewOf(r)), StepSetup(solo[r]))

TwoCalling(r) == two[r].phase = "running" /\ Len(two[r].log) < MaxCallsTwo

TwoOpen(r, pathBytes) ==
    /\ TwoCalling(r)
    /\ StoreView(r, StepOpen(ViewOf(r), pathBytes), StepOpen(solo[r], pathBytes))

TwoRead(r, fd, iovs) ==
    /\ TwoCalling(r)
    /\ StoreView(r, StepRead(ViewOf(r), fd, iovs), StepRead(solo[r], fd, iovs))

TwoWrite(r, fd, iovs) ==
    /\ TwoCalling(r)
    /\ StoreView(r, StepWrite(ViewOf(r), fd, iovs), StepWrite(solo[r], fd, iovs))

\* The descriptors the guests of the two runs read from.
TwoFds == {4, 5}

NextTwo ==
    \/ \E r \in Runs : TwoSetup(r)
    \/ \E r \in Runs, p \in Leaves : TwoOpen(r, TextEncode(p))
    \/ \E r \in Runs, fd \in TwoFds : TwoRead(r, fd, <<Iov(0, 1)>>)
    \/ \E r \in Runs : TwoWrite(r, STDOUT, <<Iov(0, 1)>>)

SpecTwo == Init /\ [][NextTwo]_vars

\* ------------------------------------------------ vocabulary of the claims
Range(seq) == {seq[k] : k \in 1..Len(seq)}

IsPrefix(a, b) == Len(a) <= Len(b) /\ a = SubSeq(b, 1, Len(a))

RECURSIVE SumLen(_)
SumLen(iovs) == IF iovs = <<>> THEN 0 ELSE Head(iovs).len + SumLen(Tail(iovs))

InsideMemory(iovs) == \A k \in 1..Len(iovs) : iovs[k].ptr + iovs[k].len <= MemSize

\* The guest has started: system calls can have executed.
GuestStarted == phase \in {"running", "done", "exited", "aborted"}

\* The last system call returned to the guest: the guest is running, or has
\* returned from its entry point since.
GuestContinued == phase \in {"running", "done"}

\* The step is a system call named op.
CallStep(op) == ncalls' = ncalls + 1 /\ lastCall'.op = op

\* Where a path leads in the loaded tree, by the children each directory
\* lists: "file", "directory", "missing" (a segment is no child of the
\* directory reached), "pastfile" (segments are left at a file) or
\* "dirslash" (a directory followed by one empty segment, about which the
\* claims say nothing).
RECURSIVE Reach(_, _)
Reach(segs, node) ==
    IF segs = <<>> THEN node.type
    ELSE IF node.type = "file" THEN "pastfile"
    ELSE IF segs = <<<<>>>> /\ <<>> \notin DOMAIN node.children THEN "dirslash"
    ELSE IF Head(segs) \notin DOMAIN node.children THEN "missing"
    ELSE Reach(Tail(segs), node.children[Head(segs)])

SegmentsOf(path) == IF path = <<>> THEN <<>> ELSE Split(path)

\* ------------------------------------------------------------------- C1
\* C1: every successful path_open returns a descriptor whose read position
\* is 0, whatever opens and reads happened earlier in the run.  Stated for
\* the descriptors that are bound to a File object.
C1_FreshPosition ==
    (lastCall.op = "path_open" /\ lastCall.code = 0
        /\ openFds[lastCall.out].obj = "file")
    => files[openFds[lastCall.out].id].cursor = 0

\* ------------------------------------------------------------------- C2
\* C2: args_sizes_get reports the number of arguments and the sum of their
\* byte lengths plus one each; args_get lays the arguments out back to
\* back, each followed by its own zero byte, at strictly increasing recorded
\* offsets, filling exactly the size args_sizes_get reports, so that every
\* argument reads back as a zero-terminated string from its offset.
C2_ArgsLayout ==
    /\ lastCall.op = "args_sizes_get"
          => lastCall.out = Len(args) /\ lastCall.out2 = <<SumSizes(args)>>
    /\ (lastCall.op = "args_get" /\ lastCall.code = 0)
          => LET ptrs == lastCall.out2
                 n == Len(args)
             IN /\ Len(ptrs) = n
                /\ ptrs[1] = lastCall.arg[1]
                /\ \A k \in 1..(n - 1) : ptrs[k] < ptrs[k + 1]
                /\ \A k \in 1..n :
                      /\ SubSeq(mem, ptrs[k] + 1, ptrs[k] + Len(args[k])) = args[k]
                      /\ mem[ptrs[k] + Len(args[k]) + 1] = 0
                /\ ptrs[n] + Len(args[n]) + 1 - ptrs[1] = SumSizes(args)

\* ------------------------------------------------------------------- C3
\* C3: descriptors 0..3 are in the table before any system call executes;
\* the k-th successful path_open returns 3 + k, a number that was not in the
\* table; no table entry is ever removed or rebound; a failed path_open
\* consumes no descriptor number and adds no entry.
C3_Descriptors ==
    /\ [](GuestStarted => (0..3) \subseteq DOMAIN openFds)
    /\ [](\A k \in 1..Len(opened) : opened[k] = 3 + k)
    /\ [][\A fd \in DOMAIN openFds :
             fd \in DOMAIN openFds' /\ openFds'[fd] = openFds[fd]]_vars
    /\ [][(CallStep("path_open") /\ lastCall'.code = 0)
             => /\ lastCall'.out \notin DOMAIN openFds
                /\ DOMAIN openFds' = (DOMAIN openFds) \cup {lastCall'.out}]_vars
    /\ [][(CallStep("path_open") /\ lastCall'.code # 0)
             => nextI' = nextI /\ openFds' = openFds]_vars

\* Two opens succeeded and a third failed.
C3_Witness ==
    /\ Len(opened) = 2
    /\ lastCall.op = "path_open"
    /\ lastCall.code # 0

\* ------------------------------------------------------------------- C4
\* C4: path_open returns 44 for a path with one extra segment (empty or not)
\* past a file leaf and for a path one of whose segments is no child of the
\* directory reached, returns 31 for a path that ends at a directory, the
\* empty path included, and the guest keeps running.
C4_PathErrors ==
    lastCall.op = "path_open"
    => LET segs == SegmentsOf(TextDecode(lastCall.arg))
           end == Reach(segs, FileSystemRoot)
       IN /\ (end = "pastfile"
                 /\ Reach(SubSeq(segs, 1, Len(segs) - 1), FileSystemRoot) = "file")
                => lastCall.code = NO_SUCH_FILE_OR_DIRECTORY
          /\ end = "missing" => lastCall.code = NO_SUCH_FILE_OR_DIRECTORY
          /\ end = "directory" => lastCall.code = IS_A_DIRECTORY
          /\ GuestContinued

\* ------------------------------------------------------------------- C5
\* C5: every fd_read on a descriptor path_open returned, with iovecs inside
\* the memory, returns 0, stores min(sum of the iovec lengths, bytes left
\* after the descriptor's read position) and advances the position by that;
\* the position never exceeds the file length and the bytes the reads on the
\* descriptor delivered are, concatenated, a prefix of the file content.
C5_SequentialRead ==
    (lastCall.op = "fd_read" /\ lastCall.fd \in Range(opened)
        /\ InsideMemory(lastCall.arg))
    => /\ lastCall.code = 0
       /\ openFds[lastCall.fd].obj = "file"
       /\ LET content == files[openFds[lastCall.fd].id].data
              d == delivered[lastCall.fd]
              before == Len(d) - lastCall.out
          IN /\ lastCall.out = Min(SumLen(lastCall.arg), Len(content) - before)
             /\ Len(d) <= Len(content)
             /\ IsPrefix(d, content)

\* ------------------------------------------------------------------- C6
\* C6: at every point of a run the sink invocations made so far are, in
\* order, the (descriptor, decoded data) pairs of the iovecs the guest has
\* written to descriptors 1 and 2: never reordered, merged or held back,
\* also once the guest has exited or was aborted.
C6_SinkFollowsWrites ==
    sink = [k \in 1..Len(written) |->
               [fd |-> written[k].fd, data |-> TextDecode(written[k].bytes)]]

\* Writes to 1, 2 and 1 gave three invocations in that order.
C6_Witness ==
    /\ Len(sink) = 3
    /\ sink[1].fd = 1 /\ sink[2].fd = 2 /\ sink[3].fd = 1
    /\ sink[2].data # <<>>

\* ------------------------------------------------------------------- C7
\* C7: after proc_exit(c) the run is resolved with c, 0 included; no system
\* call executes afterwards and the resolved value is never replaced.
C7_ProcExit ==
    /\ [](lastCall.op = "proc_exit"
            => result = ExitCode(lastCall.arg[1]) /\ phase = "exited")
    /\ [][lastCall.op = "proc_exit" => UNCHANGED vars]_vars

\* proc_exit(0) after two other system calls.
C7_Witness ==
    /\ lastCall.op = "proc_exit"
    /\ lastCall.arg = <<0>>
    /\ ncalls = 3
    /\ result = ExitCode(0)

\* ------------------------------------------------------------------- C8
\* C8: if a loader rejects during setup the caller observes a rejected
\* result: once every loader has settled and one of them rejected, the
\* result is neither pending nor resolved.
C8_RejectedSetup ==
    (/\ \E p \in Leaves : loaders[p] = "rejected"
     /\ \A p \in Leaves : loaders[p] # "pending")
    => result.state = "rejected"

\* ------------------------------------------------------------------- C9
\* C9: fd_read or fd_write on a descriptor number that is not in the table
\* aborts the run: nothing is returned to the guest, the sink is not
\* invoked, the table and the read positions are unchanged, and no system
\* call executes afterwards.
C9_NotOpenAborts ==
    /\ [][((CallStep("fd_read") \/ CallStep("fd_write"))
             /\ lastCall'.fd \notin DOMAIN openFds)
            => /\ phase' = "aborted"
               /\ lastCall'.code = None /\ lastCall'.out = None
               /\ sink' = sink /\ openFds' = openFds /\ files' = files
               /\ mem' = mem]_vars
    /\ [][phase = "aborted" => UNCHANGED vars]_vars

\* An fd_write on a descriptor that was never opened, after output.
C9_Witness ==
    /\ phase = "aborted"
    /\ lastCall.op = "fd_write"
    /\ lastCall.fd \notin DOMAIN openFds
    /\ Len(sink) > 0

\* ------------------------------------------------------------------ C10
\* C10: fd_read on descriptors 0..3, and fd_write on descriptor 0, on
\* descriptor 3 and on every descriptor path_open returned, return 58 for
\* every iovec list, and the guest continues.
C10_NotSupported ==
    (\/ lastCall.op = "fd_read" /\ lastCall.fd \in 0..3
     \/ lastCall.op = "fd_write" /\ lastCall.fd \in {0, 3} \cup Range(opened))
    => lastCall.code = NOT_SUPPORTED /\ GuestContinued

\* ------------------------------------------------------------------ C12
\* C12: the guest is not instantiated and no system call executes before
\* every loader has resolved: from the moment prepareWasi has returned, the
\* content of every file leaf is loaded, and once the guest has started no
\* loader is called, resolves or rejects.
C12_LoadedBeforeGuest ==
    /\ [](phase \in {"prepared", "instantiated", "noexports", "running",
                     "done", "exited", "aborted"}
            => \A p \in Leaves : loaders[p] = "resolved" /\ files[p].made)
    /\ [][GuestStarted
            => /\ loaders' = loaders
               /\ loaderCalls' = loaderCalls
               /\ \A p \in Leaves : files'[p].data = files[p].data]_vars

\* The first system call has executed.
C12_Witness ==
    /\ phase = "running"
    /\ ncalls = 1
    /\ lastCall.op = "path_open"
    /\ lastCall.code = 0

\* ------------------------------------------------------------------ C13
\* C13: if the instance lacks a memory export or a _start function export
\* the run resolves with undefined and the entry point is never invoked (no
\* system call, no sink invocation); if both exist and the entry point
\* returns without proc_exit, the run resolves with 0.
C13_DriverOutcome ==
    /\ (phase = "noexports")
          => /\ ~exports.memory \/ ~exports.start
             /\ result = UndefinedResult
             /\ ncalls = 0 /\ sink = <<>>
    /\ (phase = "instantiated" /\ (~exports.memory \/ ~exports.start))
          => result = Pending /\ ncalls = 0
    /\ GuestStarted => exports.memory /\ exports.start
    /\ (phase = "done") => result = ExitCode(0)

\* An instance with a memory and without _start was given up.
C13_Witness ==
    /\ phase = "noexports"
    /\ exports.memory
    /\ ~exports.start

\* ------------------------------------------------------------------ C15
\* C15: fd_prestat_get and fd_prestat_dir_name return 0 exactly for
\* descriptor 3, named ".": the first stores kind 0 and name length 1, the
\* second copies the name truncated to len; for every other descriptor,
\* open or not, both return 8 and write nothing.
C15_Prestat ==
    /\ [](lastCall.op = "fd_prestat_get"
            => IF lastCall.fd = 3
               THEN lastCall.code = 0 /\ lastCall.out = 0 /\ lastCall.out2 = <<1>>
               ELSE /\ lastCall.code = PRESTAT_FAILURE
                    /\ lastCall.out = None /\ lastCall.out2 = <<>>)
    /\ [][CallStep("fd_prestat_get") => mem' = mem]_vars
    /\ [][CallStep("fd_prestat_dir_name")
            => IF lastCall'.fd = 3
               THEN /\ lastCall'.code = 0
                    /\ mem' = [k \in 1..MemSize |->
                                 IF k = lastCall'.arg[1] + 1 /\ lastCall'.arg[2] >= 1
                                 THEN DotName[1] ELSE mem[k]]
               ELSE lastCall'.code = PRESTAT_FAILURE /\ mem' = mem]_vars

\* The name of descriptor 3 was copied after a file had been opened.
C15_Witness ==
    /\ lastCall.op = "fd_prestat_dir_name"
    /\ lastCall.fd = 3
    /\ lastCall.arg[2] = 2
    /\ mem[lastCall.arg[1] + 1] = DotName[1]
    /\ Len(opened) >= 1

\* ------------------------------------------------------------------ C16
\* The segments of every file leaf of a tree.
RECURSIVE LeafSegments(_)
LeafSegments(node) ==
    IF node.type = "file" THEN {<<>>}
    ELSE UNION {{<<name>> \o segs : segs \in LeafSegments(node.children[name])} :
                    name \in DOMAIN node.children}

\* C16: the loader of every file leaf is invoked exactly once, during setup,
\* with "./" followed by the leaf's segments joined by "/"; no system call
\* invokes a loader, however often a path is opened.
C16_LoadedOnce ==
    /\ DOMAIN loaderCalls =
          {DotName \o <<SLASH>> \o Join(segs) : segs \in LeafSegments(CallerTree)}
    /\ \A p \in DOMAIN loaderCalls :
          loaderCalls[p] = IF phase = "created" THEN 0 ELSE 1

\* One path was opened twice and read.
C16_Witness ==
    /\ Len(opened) = 2
    /\ openFds[4].obj = "file"
    /\ openFds[5] = openFds[4]
    /\ lastCall.op = "fd_read"
    /\ lastCall.out > 0

\* ------------------------------------------------------------------ C18
\* Setup and guest have stopped: the entry point returned, proc_exit was
\* called, an export is missing, a loader rejected and none is pending, or
\* a fatal violation aborted the guest.
RunStopped ==
    \/ phase \in {"done", "exited", "noexports", "aborted"}
    \/ phase = "failed" /\ \A p \in Leaves : loaders[p] # "pending"

\* C18: once setup and guest execution have stopped the result is settled;
\* it does not stay pending.
C18_Settles == RunStopped => result.state # "pending"

\* ------------------------------------------------------------------ C19
\* C19: fd_read on a descriptor A leaves the read position of every other
\* descriptor B that path_open returned as it was.
C19_ReadFrame ==
    [][CallStep("fd_read")
         => \A B \in Range(opened) :
               (B # lastCall'.fd /\ openFds[B].obj = "file")
               => files'[openFds[B].id] = files[openFds[B].id]]_vars

\* ------------------------------------------------------------------ C11
\* What the sink received, one invocation after the other.
RECURSIVE SinkText(_)
SinkText(snk) == IF snk = <<>> THEN <<>> ELSE Head(snk).data \o SinkText(Tail(snk))

\* C11: when the cat guest has returned, the sink has received, tagged
\* descriptor 1 and in order, exactly the encoded bytes of the text the
\* loader of the opened leaf resolved with, and the run has resolved with
\* exit code 0.
C11_CatDelivers ==
    (phase = "done")
       => /\ result = ExitCode(0)
          /\ \A k \in 1..Len(sink) : sink[k].fd = STDOUT
          /\ TextEncode(SinkText(sink)) = files[openFds[opened[1]].id].data

\* ------------------------------------------------------------------ C20
Max(a, b) == IF a > b THEN a ELSE b

\* C20: copy returns min(len, max(0, size(srcBuf) - src), max(0,
\* size(dstBuf) - dst)), leaves dstBuf its size, writes it only at offsets
\* dst .. dst + returned - 1, with the bytes of srcBuf at src .. src +
\* returned - 1, and every offset it reads or writes is inside its buffer.
C20_Copy ==
    copyOut.called
       => LET n == copyOut.n
          IN /\ n = Min(copyIn.len,
                        Min(Max(0, Len(copyIn.srcBuf) - copyIn.src),
                            Max(0, Len(copyIn.dstBuf) - copyIn.dst)))
             /\ Len(copyOut.dstBuf) = Len(copyIn.dstBuf)
             /\ \A k \in 0..(Len(copyIn.dstBuf) - 1) :
                   copyOut.dstBuf[k + 1] =
                      IF copyIn.dst <= k /\ k < copyIn.dst + n
                      THEN copyIn.srcBuf[copyIn.src + (k - copyIn.dst) + 1]
                      ELSE copyIn.dstBuf[k + 1]
             /\ n > 0 => /\ copyIn.src + n <= Len(copyIn.srcBuf)
                         /\ copyIn.dst + n <= Len(copyIn.dstBuf)

\* A copy cut short by the destination, from and to offsets above 0.
C20_Witness ==
    /\ copyOut.called
    /\ copyIn.src = 1 /\ copyIn.dst = 1 /\ copyIn.len = 2
    /\ Len(copyIn.srcBuf) = 2 /\ Len(copyIn.dstBuf) = 2
    /\ copyOut.n = 1
    /\ copyOut.dstBuf = <<0, copyIn.srcBuf[2]>>

\* ------------------------------------------------------------------ C17
\* The calls of fetchFile for path i that called the underlying fetch.
FetchesOf(i) == {k \in 1..Len(requests) : requests[k].path = i /\ requests[k].fetched}

\* C17, as claimed: the underlying fetch of a path is performed at most
\* once, whatever the interleaving of the requests, and every request for
\* the path returns the value of that fetch.
C17_FetchedOnce ==
    \A i \in Leaves :
       /\ Cardinality(FetchesOf(i)) <= 1
       /\ \A k, l \in 1..Len(requests) :
             (/\ requests[k].path = i /\ requests[l].path = i
              /\ requests[k].state = "returned" /\ requests[l].state = "returned")
             => requests[k].value = requests[l].value

\* C17, amended: a request made after a fetch of its path has completed
\* performs no fetch and returns at once; a request made before performs
\* its own fetch; every request returns the value of a completed fetch of
\* its path.
C17_CachedAfterFirstFetch ==
    \A k \in 1..Len(requests) :
       LET q == requests[k]
       IN /\ q.late => ~q.fetched /\ q.state = "returned"
          /\ ~q.late => q.fetched
          /\ (q.state = "returned") => q.value \in completed[q.path]

\* Two overlapping requests of one path both fetched, with different
\* values, and a third request was served from the cache.
C17_Witness ==
    /\ Len(requests) = 3
    /\ requests[1].path = requests[2].path
    /\ requests[3].path = requests[1].path
    /\ requests[1].fetched /\ requests[2].fetched
    /\ requests[1].state = "returned" /\ requests[2].state = "returned"
    /\ requests[1].value # requests[2].value
    /\ requests[3].late /\ ~requests[3].fetched
    /\ requests[3].value = cache[requests[3].path].v

\* ------------------------------------------------------------------ C14
\* C14: whatever the interleaving of two runs, each run's counter, table,
\* read positions, memory, sink invocations and call results are those of
\* the same calls made on a run of its own, and the first successful
\* path_open of each run returns 4.
C14_Independent ==
    \A r \in Runs :
       /\ ViewOf(r) = solo[r]
       /\ \A k \in 1..Len(two[r].log) :
             (/\ two[r].log[k].op = "path_open" /\ two[r].log[k].code = 0
              /\ \A j \in 1..(k - 1) :
                    ~(two[r].log[j].op = "path_open" /\ two[r].log[j].code = 0))
             => two[r].log[k].out = 4

\* Both runs have opened a file as descriptor 4 and read their own text's
\* first byte from it.
C14_Witness ==
    /\ Len(two[1].log) = 2 /\ Len(two[2].log) = 2
    /\ two[1].log[1].op = "path_open" /\ two[1].log[1].out = 4
    /\ two[2].log[1].op = "path_open" /\ two[2].log[1].out = 4
    /\ two[1].log[2].got = <<97>>
    /\ two[2].log[2].got = <<195>>

====
